---- MODULE Spec2Model ----
(***************************************************************************)
(* Model of powerpoint_server.py: the two tool handlers create_powerpoint  *)
(* and add_image_slide, the presentation document they build through the   *)
(* document library, and the files they read and write.                    *)
(*                                                                         *)
(* A Python str is a sequence of characters; the characters used here are  *)
(* short tokens ("T", "b1", ...) plus NL for "\n", SP for " " and "#".     *)
(* A path is a str too.  A text frame is a sequence of paragraphs; a shape *)
(* that does not exist on a slide is the empty sequence (a text frame that *)
(* exists always holds at least one paragraph).                            *)
(***************************************************************************)
EXTENDS Integers, Sequences, FiniteSets, TLC

VARIABLES
    call,    \* the tool call being served: operation and arguments
    pc,      \* position of the handler
    prs,     \* the in-memory presentation: [tpl, slides]
    idx,     \* number of slide specifications already processed (the for loop)
    p,       \* the handler's local variable p: a paragraph reference, or unbound
    result,  \* the returned payload, NoResult until the handler returns
    escaped, \* TRUE when an exception left the handler instead of a payload
    exc,     \* text of the exception caught by the handler ("" if none)
    failedAt,\* position at which the exception was raised ("" if none)
    fs       \* the file system: path -> file content

vars == <<call, pc, prs, idx, p, result, escaped, exc, failedAt, fs>>

----------------------------------------------------------------------------
(* Bounds of the explored inputs *)

MaxSlides == 2
MaxItems == 3
MaxBullets == 2
MaxHexLen == 7

----------------------------------------------------------------------------
(* Python values of a slide specification's fields *)

NL == "NL"
SP == " "

Absent == [t |-> "absent", s |-> <<>>, l |-> <<>>, n |-> 0]
StrV(s) == [t |-> "str", s |-> s, l |-> <<>>, n |-> 0]
IntV(n) == [t |-> "int", s |-> <<>>, l |-> <<>>, n |-> n]
ListV(l) == [t |-> "list", s |-> <<>>, l |-> l, n |-> 0]

IsStr(v) == v.t = "str"
IsList(v) == v.t = "list"
Present(v) == v.t # "absent"

AllStr(l) == \A k \in 1..Len(l) : IsStr(l[k])

(* str.split("\n"): always at least one piece *)
RECURSIVE SplitNL(_)
SplitNL(s) ==
    IF \A k \in 1..Len(s) : s[k] # NL THEN <<s>>
    ELSE LET k == CHOOSE j \in 1..Len(s) :
                      s[j] = NL /\ \A m \in 1..(j-1) : s[m] # NL
         IN <<SubSeq(s, 1, k-1)>> \o SplitNL(SubSeq(s, k+1, Len(s)))

(* "\n".join(pieces) *)
RECURSIVE JoinNL(_)
JoinNL(ps) ==
    IF Len(ps) = 0 THEN <<>>
    ELSE IF Len(ps) = 1 THEN ps[1]
    ELSE ps[1] \o <<NL>> \o JoinNL(Tail(ps))

(* " ".join(items) for a list of str *)
RECURSIVE JoinSP(_)
JoinSP(l) ==
    IF Len(l) = 0 THEN <<>>
    ELSE IF Len(l) = 1 THEN l[1].s
    ELSE l[1].s \o <<SP>> \o JoinSP(Tail(l))

(* A handler that forgets to strip the leading '#' *)
NoStrip(s) == s

(* str.lstrip('#') *)
RECURSIVE LStripHash(_)
LStripHash(s) ==
    IF Len(s) > 0 /\ s[1] = "#" THEN LStripHash(Tail(s)) ELSE s

(* int(s, 16) of a two-character slice: [ok, v].  Python accepts two hex    *)
(* digits, or one hex digit with a sign or a blank beside it.               *)
DigitVal(c) ==
    CASE c = "0" -> 0 [] c = "1" -> 1 [] c = "2" -> 2 [] c = "3" -> 3
      [] c = "4" -> 4 [] c = "5" -> 5 [] c = "6" -> 6 [] c = "7" -> 7
      [] c = "8" -> 8 [] c = "9" -> 9
      [] c \in {"A", "a"} -> 10 [] c \in {"B", "b"} -> 11
      [] c \in {"C", "c"} -> 12 [] c \in {"D", "d"} -> 13
      [] c \in {"E", "e"} -> 14 [] c \in {"F", "f"} -> 15
      [] OTHER -> -1

Int16(s) ==
    LET a == IF Len(s) >= 1 THEN DigitVal(s[1]) ELSE -1
        b == IF Len(s) >= 2 THEN DigitVal(s[2]) ELSE -1
    IN  IF Len(s) # 2 THEN [ok |-> FALSE, v |-> 0]
        ELSE IF a >= 0 /\ b >= 0 THEN [ok |-> TRUE, v |-> 16 * a + b]
        ELSE IF s[1] \in {"+", SP} /\ b >= 0 THEN [ok |-> TRUE, v |-> b]
        ELSE IF s[1] = "-" /\ b >= 0 THEN [ok |-> TRUE, v |-> 0 - b]
        ELSE IF a >= 0 /\ s[2] = SP THEN [ok |-> TRUE, v |-> a]
        ELSE [ok |-> FALSE, v |-> 0]

----------------------------------------------------------------------------
(* The document library's objects, as the handlers use them *)

Pt40 == 40
Pt32 == 32
Pt24 == 24

Para(text) == [text |-> text, level |-> 0, size |-> 0, align |-> ""]
EmptyPara == Para(<<>>)

(* The text frame of a new text box or of a placeholder cloned from a      *)
(* layout holds one empty paragraph.                                        *)
NewTextFrame == <<EmptyPara>>

(* text_frame.clear(): every paragraph but the first is removed and the    *)
(* first one loses its text and keeps its properties.                       *)
TfClear(tf) == <<[tf[1] EXCEPT !.text = <<>>]>>

(* shape.text = s: the frame's paragraphs are replaced by one paragraph    *)
(* per "\n"-separated piece of s.                                           *)
TfSetText(s) == [k \in 1..Len(SplitNL(s)) |-> Para(SplitNL(s)[k])]

(* shape.text read back *)
TfText(tf) == JoinNL([k \in 1..Len(tf) |-> tf[k].text])

TfSetSize(tf, size) == [k \in 1..Len(tf) |-> [tf[k] EXCEPT !.size = size]]
TfSetAlign(tf, a) == [k \in 1..Len(tf) |-> [tf[k] EXCEPT !.align = a]]

(* A slide layout: whether it has a title placeholder (idx 0) and of which *)
(* placeholder type (1 title, 3 centered title), how many placeholders a   *)
(* slide made from it gets, and what the placeholder with idx 1 is.        *)
Layout(ttype, nph, sub) == [ttype |-> ttype, nph |-> nph, sub |-> sub]

(* Presentation(): the library's default template, layouts 0..10 *)
DefaultLayouts ==
    << Layout(3, 2, "text"),   \* 0 Title Slide
       Layout(1, 2, "text"),   \* 1 Title and Content
       Layout(1, 2, "text"),   \* 2 Section Header
       Layout(1, 3, "text"),   \* 3 Two Content
       Layout(1, 5, "text"),   \* 4 Comparison
       Layout(1, 1, "none"),   \* 5 Title Only
       Layout(0, 0, "none"),   \* 6 Blank
       Layout(1, 3, "text"),   \* 7 Content with Caption
       Layout(1, 3, "pic"),    \* 8 Picture with Caption
       Layout(1, 2, "text"),   \* 9 Title and Vertical Text
       Layout(1, 2, "text") >> \* 10 Vertical Title and Text

(* A template file whose six layouts carry no placeholder at all *)
BareLayouts == [k \in 1..6 |-> Layout(0, 0, "none")]

Layouts(tpl) == IF tpl = "bare" THEN BareLayouts ELSE DefaultLayouts

(* prs.slides.add_slide(layout) *)
NewSlide(lay) ==
    [ title |-> IF lay.ttype # 0 THEN NewTextFrame ELSE <<>>,
      ttype |-> lay.ttype,
      nph   |-> lay.nph,
      subkind |-> lay.sub,
      sub   |-> IF lay.sub = "text" THEN NewTextFrame ELSE <<>>,
      tbox  |-> <<>>,
      bbox  |-> <<>>,
      bg    |-> <<>>,
      pic   |-> <<>> ]

(* A slide that a loaded file already contains *)
OldSlide == [NewSlide(DefaultLayouts[2]) EXCEPT !.title = TfSetText(<<"old">>)]

----------------------------------------------------------------------------
(* One iteration of the for loop of create_powerpoint.  The iteration runs *)
(* on st = [slides, p, exc]: the slides of prs (the last one is the slide  *)
(* of this iteration), the local variable p, and the exception raised so   *)
(* far ("" if none).  Once an exception is raised the rest is skipped.     *)

Unbound == [s |-> 0, f |-> "", k |-> 0]

Raise(st, e) == [st EXCEPT !.exc = e]
Cur(st) == Len(st.slides)

(* p = tf.add_paragraph(), tf the frame f of the current slide *)
AddParagraph(st, f) ==
    IF st.exc # "" THEN st
    ELSE [st EXCEPT !.slides[Cur(st)][f] = Append(@, EmptyPara),
                    !.p = [s |-> Cur(st), f |-> f,
                           k |-> Len(st.slides[Cur(st)][f]) + 1]]

(* blank = tf.add_paragraph(); blank.text = "": a paragraph that is not   *)
(* bound to p                                                               *)
AddBlank(st, f) ==
    IF st.exc # "" THEN st
    ELSE [st EXCEPT !.slides[Cur(st)][f] = Append(@, EmptyPara)]

(* p.text = v *)
PSetText(st, v) ==
    IF st.exc # "" THEN st
    ELSE IF st.p.s = 0 THEN Raise(st, "UnboundLocalError")
    ELSE IF ~IsStr(v) THEN Raise(st, "TypeError")
    ELSE [st EXCEPT !.slides[st.p.s][st.p.f][st.p.k].text = v.s]

(* p.font.size = Pt(size) *)
PSetSize(st, size) ==
    IF st.exc # "" THEN st
    ELSE IF st.p.s = 0 THEN Raise(st, "UnboundLocalError")
    ELSE [st EXCEPT !.slides[st.p.s][st.p.f][st.p.k].size = size]

(* p.level = level *)
PSetLevel(st, level) ==
    IF st.exc # "" THEN st
    ELSE IF st.p.s = 0 THEN Raise(st, "UnboundLocalError")
    ELSE [st EXCEPT !.slides[st.p.s][st.p.f][st.p.k].level = level]

(* lines 55-57: resolve the layout and add the slide *)
ResolveLayout(st, tpl, spec) ==
    LET lv == IF Present(spec.layout) THEN spec.layout ELSE IntV(1)
        n  == Len(Layouts(tpl))
        k  == IF lv.n < 0 THEN lv.n + n ELSE lv.n
    IN  IF lv.t # "int" THEN Raise(st, "TypeError")
        ELSE IF k < 0 \/ k >= n THEN Raise(st, "IndexError")
        ELSE [st EXCEPT !.slides = Append(@, NewSlide(Layouts(tpl)[k + 1]))]

(* lines 60-70: the title, in the title placeholder or in a new text box *)
SetTitle(st, spec) ==
    IF st.exc # "" \/ ~Present(spec.title) THEN st
    ELSE IF ~IsStr(spec.title) THEN Raise(st, "TypeError")
    ELSE IF st.slides[Cur(st)].title # <<>>
         THEN [st EXCEPT !.slides[Cur(st)].title =
                             TfSetSize(TfSetText(spec.title.s), Pt32)]
         ELSE [st EXCEPT !.slides[Cur(st)].tbox =
                             TfSetSize(TfSetText(spec.title.s), Pt32)]

(* lines 75-82, 106-109, 130-137, 158-161: the frame the body goes to: the *)
(* placeholder with idx 1, cleared, when the slide has more than one       *)
(* placeholder, else a new text box.  Returns [st, f].                     *)
BodyFrame(st) ==
    LET sl == st.slides[Cur(st)]
    IN  IF st.exc # "" THEN [st |-> st, f |-> "sub"]
        ELSE IF sl.nph > 1
        THEN IF sl.subkind = "none"
                 THEN [st |-> Raise(st, "KeyError"), f |-> "sub"]
             ELSE IF sl.subkind = "pic"
                 THEN [st |-> Raise(st, "AttributeError"), f |-> "sub"]
             ELSE [st |-> [st EXCEPT !.slides[Cur(st)].sub = TfClear(@)],
                   f |-> "sub"]
        ELSE [st |-> [st EXCEPT !.slides[Cur(st)].bbox = NewTextFrame],
              f |-> "bbox"]

(* lines 100-104, 122-126: one paragraph per bullet, at level 1 *)
RECURSIVE AddBullets(_, _, _)
AddBullets(st, f, bullets) ==
    IF st.exc # "" \/ Len(bullets) = 0 THEN st
    ELSE AddBullets(
             PSetSize(PSetLevel(PSetText(AddParagraph(st, f), bullets[1]), 1),
                      Pt24),
             f, Tail(bullets))

(* lines 139-146, 149-156, 163-170, 173-180: one paragraph per line *)
RECURSIVE AddLines(_, _, _)
AddLines(st, f, lines) ==
    IF st.exc # "" \/ Len(lines) = 0 THEN st
    ELSE AddLines(PSetSize(PSetText(AddParagraph(st, f), lines[1]), Pt24),
                  f, Tail(lines))

(* lines 84-98: content before the bullets, in the placeholder *)
ContentInPlaceholder(st, f, content) ==
    IF st.exc # "" \/ ~Present(content) THEN st
    ELSE IF IsList(content) /\ ~AllStr(content.l) THEN Raise(st, "TypeError")
    ELSE LET content_text ==
                 IF IsList(content) THEN StrV(JoinSP(content.l))
                 ELSE IF IsStr(content) THEN content
                 ELSE StrV(<<>>)
             s1 == PSetLevel(PSetSize(PSetText(AddParagraph(st, f),
                                               content_text), Pt24), 0)
         IN  AddBlank(s1, f)

(* lines 111-120: content before the bullets, in the fallback text box:    *)
(* p is assigned only when content is a list or a str, and is used after   *)
(* that whatever content is.                                               *)
ContentInTextbox(st, f, content) ==
    IF st.exc # "" \/ ~Present(content) THEN st
    ELSE IF IsList(content) /\ ~AllStr(content.l) THEN Raise(st, "TypeError")
    ELSE LET s1 == IF IsList(content)
                       THEN PSetText(AddParagraph(st, f), StrV(JoinSP(content.l)))
                   ELSE IF IsStr(content)
                       THEN PSetText(AddParagraph(st, f), content)
                   ELSE st
         IN  AddBlank(PSetLevel(PSetSize(s1, Pt24), 0), f)

(* lines 73-126: bullets given as a list *)
FillBullets(st, spec) ==
    LET bf == BodyFrame(st)
        s1 == IF bf.f = "sub"
                  THEN ContentInPlaceholder(bf.st, bf.f, spec.content)
                  ELSE ContentInTextbox(bf.st, bf.f, spec.content)
    IN  AddBullets(s1, bf.f, spec.bullets.l)

(* lines 129-180: content and no bullets *)
FillContent(st, spec) ==
    LET bf == BodyFrame(st)
        c  == spec.content
    IN  IF IsList(c) THEN AddLines(bf.st, bf.f, c.l)
        ELSE IF IsStr(c)
            THEN AddLines(bf.st, bf.f,
                          [k \in 1..Len(SplitNL(c.s)) |-> StrV(SplitNL(c.s)[k])])
        ELSE bf.st

(* lines 73, 129: which body branch runs *)
FillBody(st, spec) ==
    IF st.exc # "" THEN st
    ELSE IF Present(spec.bullets) /\ IsList(spec.bullets) THEN FillBullets(st, spec)
    ELSE IF Present(spec.content) THEN FillContent(st, spec)
    ELSE st

(* lines 183-188: the background colour *)
SetBackground(st, spec) ==
    IF st.exc # "" \/ ~Present(spec.background_color) THEN st
    ELSE IF ~IsStr(spec.background_color) THEN Raise(st, "AttributeError")
    ELSE LET hex_color == LStripHash(spec.background_color.s)
             r == Int16(SubSeq(hex_color, 1, 2))
             g == Int16(SubSeq(hex_color, 3, 4))
             b == Int16(SubSeq(hex_color, 5, 6))
         IN  IF Len(hex_color) # 6 THEN st
             ELSE IF ~(r.ok /\ g.ok /\ b.ok) THEN Raise(st, "ValueError")
             ELSE IF \E c \in {r.v, g.v, b.v} : c < 0 \/ c > 255
                 THEN Raise(st, "ValueError")
             ELSE [st EXCEPT !.slides[Cur(st)].bg = <<r.v, g.v, b.v>>]

(* lines 55-188: the whole iteration for one slide specification *)
SlideIteration(st, tpl, spec) ==
    SetBackground(FillBody(SetTitle(ResolveLayout(st, tpl, spec), spec), spec),
                  spec)

----------------------------------------------------------------------------
(* Files *)

FixedDir == <<"C:/Users/doria/Documents/VS/">>
OtherDir == <<"D:/other/">>

OutName == <<"out.pptx">>
AbsName == <<"/", "abs.pptx">>
DeckPath == <<"deck.pptx">>
BarePath == <<"bare.pptx">>
MissingPath == <<"missing.pptx">>
ImagePath == <<"pic.png">>
MissingImage == <<"missing.png">>
(* An argument that is None or "": the handlers test such arguments for   *)
(* truth only                                                               *)
None == <<>>

(* os.path.join(d, f): an absolute f replaces d *)
PathJoin(d, f) == IF Len(f) > 0 /\ f[1] = "/" THEN f ELSE d \o f

Paths ==
    { DeckPath, BarePath, MissingPath, ImagePath, MissingImage, AbsName,
      FixedDir, OtherDir, PathJoin(FixedDir, OutName), PathJoin(OtherDir, OutName) }

NoFile == [kind |-> "none", tpl |-> "", slides |-> <<>>]
Dir == [kind |-> "dir", tpl |-> "", slides |-> <<>>]
ImageFile == [kind |-> "image", tpl |-> "", slides |-> <<>>]
PartialFile == [kind |-> "partial", tpl |-> "", slides |-> <<>>]
PptxFile(doc) == [kind |-> "pptx", tpl |-> doc.tpl, slides |-> doc.slides]

(* The files present before the call *)
Fs0 ==
    [ q \in Paths |->
        CASE q = DeckPath -> PptxFile([tpl |-> "default", slides |-> <<OldSlide>>])
          [] q = BarePath -> PptxFile([tpl |-> "bare", slides |-> <<>>])
          [] q = AbsName  -> PptxFile([tpl |-> "default", slides |-> <<OldSlide>>])
          [] q = ImagePath -> ImageFile
          [] q \in {FixedDir, OtherDir} -> Dir
          [] OTHER -> NoFile ]

(* Presentation(path): [exc, doc] *)
OpenPresentation(files, path) ==
    IF files[path].kind = "pptx"
        THEN [exc |-> "", doc |-> [tpl |-> files[path].tpl, slides |-> files[path].slides]]
    ELSE IF files[path].kind = "dir"
        THEN [exc |-> "IsADirectoryError", doc |-> [tpl |-> "", slides |-> <<>>]]
    ELSE [exc |-> "PackageNotFoundError", doc |-> [tpl |-> "", slides |-> <<>>]]

(* Presentation(): a new document on the default template *)
BlankPresentation == [tpl |-> "default", slides |-> <<>>]

(* prs.save(path), the outcomes the environment allows: written; refused   *)
(* before the file is opened; or failed while writing, which leaves a      *)
(* truncated file.  A directory cannot be opened for writing.              *)
SaveOutcomes(files, path) ==
    IF files[path].kind = "dir" THEN {"refused"}
    ELSE {"written", "refused", "truncated"}

SaveFile(files, path, doc, outcome) ==
    CASE outcome = "written" -> [files EXCEPT ![path] = PptxFile(doc)]
      [] outcome = "truncated" -> [files EXCEPT ![path] = PartialFile]
      [] OTHER -> files

SaveExc(files, path, outcome) ==
    CASE outcome = "written" -> ""
      [] files[path].kind = "dir" -> "IsADirectoryError"
      [] OTHER -> "OSError"

----------------------------------------------------------------------------
(* The tool calls explored *)

SlideSpec(layout, title, content, bullets, bg) ==
    [layout |-> layout, title |-> title, content |-> content,
     bullets |-> bullets, background_color |-> bg]

Item(k, prefix) == StrV(<<prefix, ToString(k)>>)
Items(n, prefix) == [k \in 1..n |-> Item(k, prefix)]

(* Every list of at most n elements of S *)
RECURSIVE ListsUpTo(_, _)
ListsUpTo(S, n) ==
    IF n = 0 THEN {<<>>}
    ELSE LET shorter == ListsUpTo(S, n - 1)
         IN  shorter \cup {Append(l, x) : l \in shorter, x \in S}

CreateCall(topic, slides, output_file, save_directory, title_slide, template_file) ==
    [op |-> "create_powerpoint", topic |-> topic, slides |-> slides,
     output_file |-> output_file, save_directory |-> save_directory,
     title_slide |-> title_slide, template_file |-> template_file,
     presentation_file |-> None, image_path |-> None, title |-> None]

ImageCall(presentation_file, image_path, title, output_file, save_directory) ==
    [op |-> "add_image_slide", topic |-> None, slides |-> <<>>,
     output_file |-> output_file, save_directory |-> save_directory,
     title_slide |-> FALSE, template_file |-> None,
     presentation_file |-> presentation_file, image_path |-> image_path,
     title |-> title]

Topics == {<<"T">>, <<"T", NL, "U">>}

(* Slide specifications that drive the call as a whole: a well-formed one, *)
(* bullets in the body placeholder, bullets with a wrong-typed content on  *)
(* the blank layout, a layout index out of range, a title with content.    *)
CoreSlides ==
    { SlideSpec(Absent, Absent, Absent, Absent, Absent),
      SlideSpec(Absent, Absent, Absent, ListV(Items(2, "b")), Absent),
      SlideSpec(IntV(6), Absent, IntV(7), ListV(Items(1, "b")), Absent),
      SlideSpec(IntV(11), Absent, Absent, Absent, Absent),
      SlideSpec(Absent, StrV(<<"t">>), StrV(<<"x", NL, "y">>), Absent,
                StrV(<<"#", "F", "F", "5", "7", "3", "3">>)) }

CreateCalls ==
    { CreateCall(t, sl, o, d, ts, tf) :
        t \in Topics, sl \in ListsUpTo(CoreSlides, MaxSlides),
        o \in {OutName, AbsName, None}, d \in {None, OtherDir},
        ts \in BOOLEAN, tf \in {None, DeckPath, BarePath, MissingPath} }

ImageCalls ==
    { ImageCall(pf, ip, t, o, d) :
        pf \in {DeckPath, BarePath, MissingPath, ImagePath},
        ip \in {ImagePath, MissingImage, DeckPath},
        t \in {None, <<"T">>}, o \in {None, OutName, AbsName},
        d \in {None, OtherDir} }

(* Slide specifications that vary the body: content alone and bullets     *)
(* with or without content, of every type, on the layout with a body       *)
(* placeholder (the default, 1) and on the blank layout (6); and           *)
(* wrong-typed or unusable values of the other fields.                     *)
BodyLayouts == {Absent, IntV(6)}

ContentValues ==
    {IntV(7), StrV(<<"x", NL, "y">>)} \cup {ListV(Items(n, "c")) : n \in 0..MaxItems}

BulletLists == {ListV(Items(n, "b")) : n \in 0..MaxBullets}

BodySlides ==
    { SlideSpec(l, Absent, c, Absent, Absent) : l \in BodyLayouts, c \in ContentValues }
    \cup
    { SlideSpec(l, Absent, c, b, Absent) :
        l \in BodyLayouts, b \in BulletLists,
        c \in {Absent, IntV(7), StrV(<<"x", NL, "y">>), ListV(Items(2, "c"))} }
    \cup
    { SlideSpec(l, Absent, c, b, Absent) :
        l \in BodyLayouts, c \in {Absent, StrV(<<"x">>)},
        b \in {StrV(<<"b">>), ListV(<<IntV(1)>>)} }
    \cup
    { SlideSpec(l, t, Absent, Absent, Absent) :
        l \in BodyLayouts, t \in {StrV(<<"t", NL, "u">>), IntV(3)} }
    \cup
    { SlideSpec(l, Absent, StrV(<<"x">>), Absent, Absent) :
        l \in {StrV(<<"1">>), IntV(5), IntV(8)} }
    \cup
    { SlideSpec(Absent, Absent, Absent, Absent, IntV(255)) }

SlideLists ==
    {<<>>} \cup { Append(l, x) : l \in ListsUpTo(CoreSlides, MaxSlides - 1),
                                 x \in BodySlides }

SlideCalls ==
    { CreateCall(<<"T">>, sl, OutName, None, ts, None) :
        sl \in SlideLists, ts \in BOOLEAN }

(* Background colours: every string over "#", a hex digit and a non-digit  *)
(* of at most MaxHexLen characters, and some named ones                    *)
RECURSIVE StringsUpTo(_, _)
StringsUpTo(A, n) ==
    IF n = 0 THEN {<<>>}
    ELSE LET shorter == StringsUpTo(A, n - 1)
         IN  shorter \cup {Append(w, c) : w \in shorter, c \in A}

HexStrings ==
    StringsUpTo({"#", "F", "G"}, MaxHexLen)
    \cup { <<"#", "F", "F", "5", "7", "3", "3">>, <<"F", "F", "5", "7", "3", "3">>,
           <<"#", "f", "f", "5", "7", "3", "3">>, <<"#", "F", "5", "3">>,
           <<"-", "F", "-", "F", "-", "F">>, <<SP, "F", SP, "F", SP, "F">> }

HexCalls ==
    { CreateCall(<<"T">>, <<SlideSpec(Absent, Absent, Absent, Absent, StrV(h))>>,
                 OutName, None, ts, None) :
        h \in HexStrings, ts \in BOOLEAN }

----------------------------------------------------------------------------
(* The handlers *)

Pending == [pending |-> <<>>]

(* A handler that catches file-system errors only *)
CatchesOnlyOSError(e) == e \in {"OSError", "IsADirectoryError", "FileNotFoundError"}

(* except Exception as e (lines 195, 241): every exception raised inside   *)
(* the try block is caught                                                 *)
Catches(e) == TRUE

(* An error payload that carries the text under a separate message key *)
ErrorPayloadWithMessage(op, e) ==
    [error |-> <<"failed">>, message |-> <<e>>]

(* lines 196, 242: the error payload *)
ErrorPayload(op, e) ==
    IF op = "create_powerpoint"
        THEN [error |-> <<"Failed to create PowerPoint presentation: ", e>>]
        ELSE [error |-> <<"Failed to add image slide: ", e>>]

(* lines 193, 239: the success payload *)
SuccessPayload(op, path) ==
    IF op = "create_powerpoint"
        THEN [status |-> <<"success">>,
              message |-> <<"PowerPoint file saved to ">> \o path]
        ELSE [status |-> <<"success">>,
              message |-> <<"Image slide added and presentation saved to ">> \o path]

(* An exception raised inside the try block at step `at` *)
Fail(e, at) ==
    /\ pc' = "done"
    /\ exc' = e
    /\ failedAt' = at
    /\ IF Catches(e)
           THEN result' = ErrorPayload(call.op, e) /\ escaped' = FALSE
           ELSE result' = result /\ escaped' = TRUE

(* line 40 *)
Load ==
    /\ pc = "load"
    /\ LET r == IF call.template_file # None
                    THEN OpenPresentation(fs, call.template_file)
                    ELSE [exc |-> "", doc |-> BlankPresentation]
       IN  IF r.exc # ""
               THEN Fail(r.exc, "load") /\ UNCHANGED <<call, prs, idx, p, fs>>
               ELSE /\ prs' = r.doc
                    /\ pc' = "title"
                    /\ UNCHANGED <<call, idx, p, result, escaped, exc, failedAt, fs>>

(* A title slide whose title is left empty *)
AddTitleSlideUntitled(doc, topic) ==
    [exc |-> "", slides |-> Append(doc.slides, NewSlide(Layouts(doc.tpl)[1]))]

(* lines 43-51: [exc, slides] *)
AddTitleSlide(doc, topic) ==
    LET slide == NewSlide(Layouts(doc.tpl)[1])
        s1 == [slide EXCEPT !.title = TfSetText(topic)]
        s2 == IF slide.nph > 1
                  THEN [s1 EXCEPT !.sub = TfSetText(<<"Generated by Gemini model">>)]
                  ELSE s1
        s3 == [s2 EXCEPT !.title = TfSetAlign(TfSetSize(@, Pt40), "ctr")]
    IN  IF slide.title = <<>>
            THEN [exc |-> "AttributeError", slides |-> Append(doc.slides, slide)]
        ELSE IF slide.nph > 1 /\ slide.subkind # "text"
            THEN [exc |-> IF slide.subkind = "none" THEN "KeyError"
                          ELSE "AttributeError",
                  slides |-> Append(doc.slides, s1)]
        ELSE [exc |-> "", slides |-> Append(doc.slides, s3)]

TitleSlide ==
    /\ pc = "title"
    /\ LET r == IF call.title_slide THEN AddTitleSlide(prs, call.topic)
                ELSE [exc |-> "", slides |-> prs.slides]
       IN  /\ prs' = [prs EXCEPT !.slides = r.slides]
           /\ IF r.exc # ""
                  THEN Fail(r.exc, "title") /\ UNCHANGED <<call, idx, p, fs>>
                  ELSE /\ pc' = "loop"
                       /\ UNCHANGED <<call, idx, p, result, escaped, exc, failedAt, fs>>

(* A loop that saves the presentation after every slide *)
ProcessSlideSavingEach ==
    /\ pc = "loop"
    /\ idx < Len(call.slides)
    /\ LET st == SlideIteration([slides |-> prs.slides, p |-> p, exc |-> ""],
                                prs.tpl, call.slides[idx + 1])
       IN  /\ prs' = [prs EXCEPT !.slides = st.slides]
           /\ p' = st.p
           /\ IF st.exc # ""
                  THEN Fail(st.exc, "slide") /\ UNCHANGED <<call, idx, fs>>
                  ELSE /\ idx' = idx + 1
                       /\ fs' = SaveFile(fs, PathJoin(FixedDir, call.output_file),
                                         prs', "written")
                       /\ UNCHANGED <<call, pc, result, escaped, exc, failedAt>>

(* lines 54-188: one iteration of the loop over slides *)
ProcessSlide ==
    /\ pc = "loop"
    /\ idx < Len(call.slides)
    /\ LET st == SlideIteration([slides |-> prs.slides, p |-> p, exc |-> ""],
                                prs.tpl, call.slides[idx + 1])
       IN  /\ prs' = [prs EXCEPT !.slides = st.slides]
           /\ p' = st.p
           /\ IF st.exc # ""
                  THEN Fail(st.exc, "slide") /\ UNCHANGED <<call, idx, fs>>
                  ELSE /\ idx' = idx + 1
                       /\ UNCHANGED <<call, pc, result, escaped, exc, failedAt, fs>>

(* line 36 and line 191: the path create_powerpoint saves to *)
CreatePath(c) == PathJoin(FixedDir, c.output_file)

(* lines 191-193 *)
Save ==
    /\ pc = "loop"
    /\ idx = Len(call.slides)
    /\ \E outcome \in SaveOutcomes(fs, CreatePath(call)) :
          /\ fs' = SaveFile(fs, CreatePath(call), prs, outcome)
          /\ IF outcome = "written"
                 THEN /\ result' = SuccessPayload(call.op, CreatePath(call))
                      /\ pc' = "done"
                      /\ UNCHANGED <<call, prs, idx, p, escaped, exc, failedAt>>
                 ELSE /\ Fail(SaveExc(fs, CreatePath(call), outcome), "save")
                      /\ UNCHANGED <<call, prs, idx, p>>

(* line 207 *)
ImgLoad ==
    /\ pc = "iload"
    /\ LET r == OpenPresentation(fs, call.presentation_file)
       IN  IF r.exc # ""
               THEN Fail(r.exc, "load") /\ UNCHANGED <<call, prs, idx, p, fs>>
               ELSE /\ prs' = r.doc
                    /\ pc' = "islide"
                    /\ UNCHANGED <<call, idx, p, result, escaped, exc, failedAt, fs>>

(* lines 211-228: the title of the image slide, in the placeholder of type *)
(* 1 when the slide has one, else in a new text box                        *)
ImageTitle(slide, title) ==
    IF title = None THEN slide
    ELSE IF slide.ttype = 1
        THEN [slide EXCEPT !.title = TfSetAlign(TfSetSize(TfSetText(title), Pt32), "ctr")]
        ELSE [slide EXCEPT !.tbox = TfSetAlign(TfSetSize(TfSetText(title), Pt32), "ctr")]

(* lines 208-228 *)
ImgAddSlide ==
    /\ pc = "islide"
    /\ IF Len(Layouts(prs.tpl)) < 6
           THEN Fail("IndexError", "slide") /\ UNCHANGED <<call, prs, idx, p, fs>>
           ELSE /\ prs' = [prs EXCEPT !.slides =
                              Append(@, ImageTitle(NewSlide(Layouts(prs.tpl)[6]),
                                                   call.title))]
                /\ pc' = "ipic"
                /\ UNCHANGED <<call, idx, p, result, escaped, exc, failedAt, fs>>

(* lines 230-231 *)
ImgAddPicture ==
    /\ pc = "ipic"
    /\ IF fs[call.image_path].kind = "image"
           THEN /\ prs' = [prs EXCEPT !.slides[Len(prs.slides)].pic = call.image_path]
                /\ pc' = "isave"
                /\ UNCHANGED <<call, idx, p, result, escaped, exc, failedAt, fs>>
           ELSE /\ Fail(IF fs[call.image_path].kind = "none"
                            THEN "FileNotFoundError" ELSE "UnidentifiedImageError",
                        "picture")
                /\ UNCHANGED <<call, prs, idx, p, fs>>

(* A handler that honours the caller's save directory *)
ImagePathHonouringDirectory(c) ==
    IF c.output_file # None
        THEN PathJoin(IF c.save_directory # None THEN c.save_directory ELSE FixedDir,
                      c.output_file)
    ELSE c.presentation_file

(* lines 204, 233-236: the path add_image_slide saves to *)
ImagePathToSave(c) ==
    IF c.output_file # None THEN PathJoin(FixedDir, c.output_file)
    ELSE c.presentation_file

(* lines 238-239 *)
ImgSave ==
    /\ pc = "isave"
    /\ \E outcome \in SaveOutcomes(fs, ImagePathToSave(call)) :
          /\ fs' = SaveFile(fs, ImagePathToSave(call), prs, outcome)
          /\ IF outcome = "written"
                 THEN /\ result' = SuccessPayload(call.op, ImagePathToSave(call))
                      /\ pc' = "done"
                      /\ UNCHANGED <<call, prs, idx, p, escaped, exc, failedAt>>
                 ELSE /\ Fail(SaveExc(fs, ImagePathToSave(call), outcome), "save")
                      /\ UNCHANGED <<call, prs, idx, p>>

----------------------------------------------------------------------------
(* Specifications *)

Start(c) ==
    /\ call = c
    /\ pc = IF c.op = "create_powerpoint" THEN "load" ELSE "iload"
    /\ prs = [tpl |-> "", slides |-> <<>>]
    /\ idx = 0
    /\ p = Unbound
    /\ result = Pending
    /\ escaped = FALSE
    /\ exc = ""
    /\ failedAt = ""
    /\ fs = Fs0

Init == \E c \in CreateCalls \cup ImageCalls : Start(c)

Next ==
    \/ Load
    \/ TitleSlide
    \/ ProcessSlide
    \/ Save
    \/ ImgLoad
    \/ ImgAddSlide
    \/ ImgAddPicture
    \/ ImgSave

Spec == Init /\ [][Next]_vars

(* create_powerpoint alone, over the slide specifications *)
NextCreate ==
    \/ Load
    \/ TitleSlide
    \/ ProcessSlide
    \/ Save

InitSlides == \E c \in SlideCalls : Start(c)

SpecSlides == InitSlides /\ [][NextCreate]_vars

(* create_powerpoint alone, over the background colours *)
InitHex == \E c \in HexCalls : Start(c)

SpecHex == InitHex /\ [][NextCreate]_vars

----------------------------------------------------------------------------
(* Properties *)

Done == pc = "done"
IsCreate == call.op = "create_powerpoint"
IsImage == call.op = "add_image_slide"
Succeeded == Done /\ "status" \in DOMAIN result
Keys(payload) == DOMAIN payload

(* Number of slides in prs before the slide of the first specification *)
BaseCount ==
    (IF call.template_file # None /\ Fs0[call.template_file].kind = "pptx"
         THEN Len(Fs0[call.template_file].slides) ELSE 0)
    + (IF call.title_slide THEN 1 ELSE 0)

(* The slide made for the specification at position k (1-based) *)
SlideFor(k) == prs.slides[BaseCount + k]

(* The body of a slide: the fallback text box when one was made, else the  *)
(* placeholder with idx 1                                                   *)
Body(slide) == IF slide.bbox # <<>> THEN slide.bbox ELSE slide.sub

Texts(tf) == [k \in 1..Len(tf) |-> tf[k].text]
Levels(tf) == [k \in 1..Len(tf) |-> tf[k].level]

(* C1: when a handler has returned, no exception has escaped it and it has *)
(* returned a payload; every failure, at whichever step, gave an error     *)
(* payload; add_image_slide on a presentation_file that does not exist     *)
(* returned an error payload.                                               *)
C1_NoExceptionEscapes ==
    Done =>
        /\ ~escaped
        /\ result # Pending
        /\ (exc # "" => "error" \in Keys(result))
        /\ (IsImage /\ Fs0[call.presentation_file].kind = "none"
               => "error" \in Keys(result))

C1_Witness ==
    /\ Done /\ IsImage
    /\ call.presentation_file = MissingPath
    /\ failedAt = "load"
    /\ "error" \in Keys(result)

(* C2: when create_powerpoint fails before the save (loading, the title    *)
(* slide, or the slide specification at any position), no file has been    *)
(* written: the file system is as before the call, and the error payload   *)
(* holds the exception's text.                                              *)
C2_NoPartialSave ==
    (Done /\ IsCreate /\ failedAt \in {"load", "title", "slide"}) =>
        /\ fs = Fs0
        /\ exc # ""
        /\ "error" \in Keys(result)
        /\ \E k \in 1..Len(result.error) : result.error[k] = exc

C2_Witness ==
    /\ Done /\ IsCreate
    /\ failedAt = "slide"
    /\ idx >= 1
    /\ fs = Fs0

(* C3 as stated: every returned payload has the keys status and message,   *)
(* or the keys error and message.                                           *)
C3_Original ==
    Done => Keys(result) \in {{"status", "message"}, {"error", "message"}}

(* C3 amended: a call that succeeds returns a payload with the keys status *)
(* and message; a call in which an exception occurred returns a payload    *)
(* with the single key error, whose value holds the message.               *)
C3_PayloadShape ==
    Done =>
        \/ exc = "" /\ Keys(result) = {"status", "message"}
        \/ exc # "" /\ Keys(result) = {"error"} /\ Len(result.error) > 0

C3_Witness ==
    /\ Done /\ exc # ""
    /\ Keys(result) = {"error"}

(* A specification whose content is neither a str nor a list while every   *)
(* other field is absent or of its documented type                          *)
WrongTypedContentOnly(spec) ==
    /\ Present(spec.content) /\ ~IsStr(spec.content) /\ ~IsList(spec.content)
    /\ spec.layout.t \in {"absent", "int"}
    /\ spec.title.t \in {"absent", "str"}
    /\ spec.bullets.t = "absent" \/ (IsList(spec.bullets) /\ AllStr(spec.bullets.l))
    /\ spec.background_color.t \in {"absent", "str"}

(* C4 as stated, on its named case: a content value that is neither a str  *)
(* nor a list is silently ignored, so no slide specification whose only    *)
(* wrong-typed field is content makes create_powerpoint fail.              *)
C4_Original ==
    (Done /\ IsCreate /\ failedAt = "slide")
        => ~WrongTypedContentOnly(call.slides[idx + 1])

(* C5 as stated: the body of the slide made for a specification whose      *)
(* content is a list of n >= 1 strings, without bullets, holds exactly n   *)
(* paragraphs, the list items in list order.                               *)
C5_Original ==
    \A k \in 1..idx :
        LET spec == call.slides[k]
        IN  (/\ IsList(spec.content) /\ AllStr(spec.content.l)
             /\ Len(spec.content.l) >= 1
             /\ ~Present(spec.bullets))
                => Texts(Body(SlideFor(k)))
                       = [j \in 1..Len(spec.content.l) |-> spec.content.l[j].s]

(* The paragraphs C6 lists for a specification: the content string and a   *)
(* blank paragraph when content is present, then the bullets               *)
ListedTexts(spec) ==
    (IF Present(spec.content) THEN <<spec.content.s, <<>>>> ELSE <<>>)
    \o [j \in 1..Len(spec.bullets.l) |-> spec.bullets.l[j].s]

ListedLevels(spec) ==
    (IF Present(spec.content) THEN <<0, 0>> ELSE <<>>)
    \o [j \in 1..Len(spec.bullets.l) |-> 1]

(* C6 as stated: the body of the slide made for a specification with a     *)
(* non-empty list of bullets holds, in this order, the content string and a blank    *)
(* paragraph when content (a string) is present, then one paragraph per    *)
(* bullet at level 1 in input order.                                        *)
C6_Original ==
    \A k \in 1..idx :
        LET spec == call.slides[k]
        IN  (/\ IsList(spec.bullets) /\ AllStr(spec.bullets.l)
             /\ Len(spec.bullets.l) >= 1
             /\ (~Present(spec.content) \/ IsStr(spec.content)))
                => /\ Texts(Body(SlideFor(k))) = ListedTexts(spec)
                   /\ Levels(Body(SlideFor(k))) = ListedLevels(spec)

(* What C10 compares: text, level and font size of every paragraph of a    *)
(* slide                                                                    *)
FrameView(tf) == [k \in 1..Len(tf) |-> <<tf[k].text, tf[k].level, tf[k].size>>]
SlideView(slide) ==
    <<FrameView(slide.title), FrameView(slide.sub),
      FrameView(slide.tbox), FrameView(slide.bbox)>>

(* C10 as stated: processing the specification at position i leaves the    *)
(* paragraphs of the title slide and of the slides made for the positions  *)
(* before i as they were.                                                   *)
C10_Original ==
    [][ (pc = "loop" /\ idx < Len(call.slides))
            => \A k \in 1..Len(prs.slides) :
                   SlideView(prs'.slides[k]) = SlideView(prs.slides[k]) ]_vars

(* The colour string of the only slide specification of a call *)
Colour == call.slides[1].background_color.s
Stripped == LET RECURSIVE Drop(_)
                Drop(w) == IF Len(w) > 0 /\ w[1] = "#" THEN Drop(Tail(w)) ELSE w
            IN  Drop(Colour)

(* "#" followed by six hex digits, or six hex digits *)
IsHexColour ==
    LET h == IF Len(Colour) > 0 /\ Colour[1] = "#" THEN Tail(Colour) ELSE Colour
    IN  Len(h) = 6 /\ \A k \in 1..6 : DigitVal(h[k]) >= 0

RGBOf(h) ==
    << 16 * DigitVal(h[1]) + DigitVal(h[2]),
       16 * DigitVal(h[3]) + DigitVal(h[4]),
       16 * DigitVal(h[5]) + DigitVal(h[6]) >>

(* The only slide specification has been processed, or has failed *)
ColourHandled == idx = 1 \/ failedAt = "slide"
ColourRaised == failedAt = "slide"
Background == prs.slides[BaseCount + 1].bg

ExpectedPath ==
    IF IsImage /\ call.output_file = None THEN call.presentation_file
    ELSE IF Len(call.output_file) > 0 /\ call.output_file[1] = "/"
        THEN call.output_file
    ELSE FixedDir \o call.output_file

====
